---- MODULE Spec2Model ----
(***************************************************************************)
(* Finance Analytics MVP data generator (generate_finance_mvp_data.py).    *)
(*                                                                         *)
(* The model follows main(): makedirs, make_dimensions, generate_budget,   *)
(* generate_actuals, validate, five to_csv calls and the summary print.    *)
(* The two generation loops advance one iteration per step.                *)
(*                                                                         *)
(* Representation:                                                         *)
(*   - a date is <<year, month, day>>, a monthly period <<year, month>>;   *)
(*   - money is an integer number of cents (the code rounds to 2 places);  *)
(*     factors are integers in hundredths or thousandths;                  *)
(*   - a cost-center id f"CC{str(i).zfill(4)}" is the sequence of its      *)
(*     digits after the constant prefix CC;                                *)
(*   - a GL account code, a string of six digits, is the number it spells  *)
(*     (string order of six-digit codes is numeric order);                 *)
(*   - numpy's generator is a deterministic state machine seeded from      *)
(*     cfg.seed; every draw steps the state and decodes a value from it.   *)
(***************************************************************************)
EXTENDS Integers, Sequences, FiniteSets

VARIABLES cfg, pc, rng, cost_centers, gl_accounts, fiscal_calendar,
          budget, actuals, loop, trend, disk, written, stderr, exit_status,
          stages, run, first_run, disk0, exception

vars == <<cfg, pc, rng, cost_centers, gl_accounts, fiscal_calendar,
          budget, actuals, loop, trend, disk, written, stderr, exit_status,
          stages, run, first_run, disk0, exception>>

\* cfg            the Config of the run
\* pc             where main is
\* rng            the state of the generator
\* cost_centers, gl_accounts, fiscal_calendar, budget, actuals
\*                the tables (budget and actuals grow row by row)
\* loop           the locals of the running loop: its position k, budget_g,
\*                and the last noise, multiplier and Poisson draw
\* trend          over_budget_cc and under_budget_cc
\* disk, disk0    the output directory and its files, now and at the start
\*                of the run
\* written        the files this run has written, in order
\* exception      the exception that ended the run, if any
\* stderr, exit_status
\*                what the handler printed, and the exit status (-1 while
\*                the process runs)
\* stages         the stages of main that have completed, in order
\* run, first_run the number of the run, and what the first run generated

----------------------------------------------------------------------------
(* Bounds of the model.                                                    *)

MaxSeed == 2
MaxCC == 2
MaxGL == 6
MaxPostings == 2
MaxTrend == 1
MaxPoisson == 3
RngModulus == 64

----------------------------------------------------------------------------
(* Config defaults that the model keeps fixed.  Amounts are in currency    *)
(* units, uplifts and probabilities in hundredths.                         *)

base_opex == 3000
base_capex == 8000
avg_postings_opex_per_month == 4
avg_postings_capex_per_month == 2
seasonal_q4_uplift == 15
seasonal_summer_uplift == 5
sparse_gl_probability == 35
spike_probability == 3
spike_min == 25
spike_max == 60

----------------------------------------------------------------------------
(* Small helpers.                                                          *)

Max(a, b) == IF a >= b THEN a ELSE b
Min(a, b) == IF a <= b THEN a ELSE b

\* x / d rounded to the nearest integer, for d > 0 and any sign of x.
RoundDiv(x, d) ==
    IF x >= 0 THEN (x + (d \div 2)) \div d ELSE 0 - (((0 - x) + (d \div 2)) \div d)

Range(s) == {s[i] : i \in 1..Len(s)}

\* an exception: its type, its message str(e), and the line that raises it
Exc(type, msg, line) == [type |-> type, msg |-> msg, line |-> line]
NoException == Exc("None", "", 0)

\* s[:n] for n >= 0
Take(s, n) == SubSeq(s, 1, Min(n, Len(s)))

----------------------------------------------------------------------------
(* Calendar arithmetic (datetime.date, pandas Period and Timestamp).       *)
(* A date is <<year, month, day>>, a monthly period is <<year, month>>.    *)

IsLeap(y) == (y % 4 = 0 /\ y % 100 # 0) \/ y % 400 = 0

DaysInMonth(y, m) ==
    IF m = 2 THEN (IF IsLeap(y) THEN 29 ELSE 28)
    ELSE IF m \in {4, 6, 9, 11} THEN 30 ELSE 31

\* date(y, m, d)
Date(y, m, d) == <<y, m, d>>

\* a < b, a <= b on dates
DateLess(a, b) ==
    IF a[1] # b[1] THEN a[1] < b[1]
    ELSE IF a[2] # b[2] THEN a[2] < b[2]
    ELSE a[3] < b[3]

DateLeq(a, b) == a = b \/ DateLess(a, b)

\* d + pd.Timedelta(days=1)
NextDay(d) ==
    IF d[3] < DaysInMonth(d[1], d[2]) THEN <<d[1], d[2], d[3] + 1>>
    ELSE IF d[2] < 12 THEN <<d[1], d[2] + 1, 1>>
    ELSE <<d[1] + 1, 1, 1>>

\* pd.date_range(a, b, freq="D")
RECURSIVE DateRange(_, _)
DateRange(a, b) == IF DateLess(b, a) THEN <<>> ELSE <<a>> \o DateRange(NextDay(a), b)

\* pd.Period(d, freq="M")
PeriodOf(d) == <<d[1], d[2]>>

\* p + 1
NextPeriod(p) == IF p[2] < 12 THEN <<p[1], p[2] + 1>> ELSE <<p[1] + 1, 1>>

PeriodLess(p, q) == IF p[1] # q[1] THEN p[1] < q[1] ELSE p[2] < q[2]

\* p.to_timestamp(): the first day of the period
PeriodStart(p) == <<p[1], p[2], 1>>

\* (p + 1).to_timestamp() - pd.Timedelta(days=1)
PeriodEnd(p) == <<p[1], p[2], DaysInMonth(p[1], p[2])>>

RECURSIVE PeriodsFrom(_, _)
PeriodsFrom(p, q) ==
    IF PeriodLess(q, p) THEN <<>> ELSE <<p>> \o PeriodsFrom(NextPeriod(p), q)

\* pd.period_range(a, b, freq="M")
PeriodRange(a, b) == PeriodsFrom(PeriodOf(a), PeriodOf(b))

----------------------------------------------------------------------------
(* Cost-center ids.                                                        *)

\* str(i) for i >= 0, as digits
RECURSIVE Str(_)
Str(i) == IF i < 10 THEN <<i>> ELSE Append(Str(i \div 10), i % 10)

\* s.zfill(w)
RECURSIVE Zfill(_, _)
Zfill(s, w) == IF Len(s) >= w THEN s ELSE Zfill(<<0>> \o s, w)

\* f"CC{str(i).zfill(4)}"
CcId(i) == Zfill(Str(i), 4)

\* Python's order on strings
RECURSIVE StrLess(_, _)
StrLess(a, b) ==
    IF a = <<>> THEN b # <<>>
    ELSE IF b = <<>> THEN FALSE
    ELSE IF Head(a) # Head(b) THEN Head(a) < Head(b)
    ELSE StrLess(Tail(a), Tail(b))

----------------------------------------------------------------------------
(* numpy.random.Generator.  A draw returns [val, rng]: the value and the   *)
(* generator's next state.                                                 *)

\* a faulty variant: np.random.default_rng() seeded from fresh entropy
DefaultRngFromEntropy(seed) == (seed + run) % RngModulus

\* np.random.default_rng(seed)
DefaultRng(seed) == seed % RngModulus

\* one step of the bit generator
RngStep(s) == (21 * s + 11) % RngModulus

\* rng.random(): a value of [0, 1), in hundredths
DrawRandom(s) ==
    LET t == RngStep(s) IN [val |-> (t * 100) \div RngModulus, rng |-> t]

\* standard scores the generator can return, far tails included
ZScores == <<-13, -2, -1, 0, 0, 1, 2, 13>>

\* rng.normal(mean, sd): mean and sd in hundredths
DrawNormal(mean, sd, s) ==
    LET t == RngStep(s)
    IN  [val |-> mean + sd * ZScores[((t + (t \div 8)) % 8) + 1], rng |-> t]

\* rng.uniform(lo, hi), in hundredths
DrawUniform(lo, hi, s) ==
    LET t == RngStep(s) IN [val |-> lo + (((hi - lo) * t) \div RngModulus), rng |-> t]

\* rng.poisson(lam): any count, 0 and large ones included
DrawPoisson(lam, s) ==
    LET t == RngStep(s)
    IN  [val |-> IF lam = 0 THEN 0 ELSE (t + (t \div 4)) % (MaxPoisson + 1), rng |-> t]

\* rng.choice(a): one element of a non-empty list
DrawChoice(a, s) ==
    LET t == RngStep(s) IN [val |-> a[(t % Len(a)) + 1], rng |-> t]

\* a without its i-th element
RemoveAt(a, i) == SubSeq(a, 1, i - 1) \o SubSeq(a, i + 1, Len(a))

\* rng.choice(a, size=k, replace=False): k distinct elements of the list a
RECURSIVE DrawChoiceNoReplace(_, _, _)
DrawChoiceNoReplace(a, k, s) ==
    IF k = 0 THEN [val |-> <<>>, rng |-> s]
    ELSE LET t == RngStep(s)
             i == (t % Len(a)) + 1
             rest == DrawChoiceNoReplace(RemoveAt(a, i), k - 1, t)
         IN  [val |-> <<a[i]>> \o rest.val, rng |-> rest.rng]

\* rng.choice(a, size=n, replace=True)
RECURSIVE DrawChoiceReplace(_, _, _)
DrawChoiceReplace(a, n, s) ==
    IF n = 0 THEN [val |-> <<>>, rng |-> s]
    ELSE LET d == DrawChoice(a, s)
             rest == DrawChoiceReplace(a, n - 1, d.rng)
         IN  [val |-> <<d.val>> \o rest.val, rng |-> rest.rng]

\* rng.dirichlet(np.ones(n)): n weights >= 0, in hundredths, summing to 100
RECURSIVE DrawSticks(_, _, _)
DrawSticks(n, left, s) ==
    IF n = 1 THEN [val |-> <<left>>, rng |-> s]
    ELSE LET t == RngStep(s)
             w == (left * t) \div RngModulus
             rest == DrawSticks(n - 1, left - w, t)
         IN  [val |-> <<w>> \o rest.val, rng |-> rest.rng]

DrawDirichlet(n, s) ==
    IF n = 0 THEN [val |-> <<>>, rng |-> s]
    ELSE LET r == DrawSticks(n, 100, RngStep(s)) IN r

----------------------------------------------------------------------------
(* make_dimensions                                                         *)

departments ==
    <<"FP&A", "Accounting", "Procurement", "Treasury", "Operations", "Sales Ops",
      "IT Finance", "Corporate", "R&D", "Manufacturing", "Logistics", "Facilities">>

managers ==
    <<"A. Patel", "J. Kim", "M. Chen", "S. Rivera", "D. Johnson", "L. Singh",
      "N. Garcia", "K. Brown", "R. Ahmed", "T. Nguyen", "P. Wilson", "E. Martinez">>

GlDef(code, name, type, group) ==
    [gl_account |-> code, gl_name |-> name, account_type |-> type, gl_group |-> group]

gl_defs ==
    << GlDef(600000, "Salaries & Wages", "OPEX", "Payroll"),
       GlDef(601000, "Benefits", "OPEX", "Payroll"),
       GlDef(602000, "Contractors", "OPEX", "Payroll"),
       GlDef(610000, "Software & Subscriptions", "OPEX", "IT"),
       GlDef(611000, "Cloud Infrastructure", "OPEX", "IT"),
       GlDef(620000, "Travel & Entertainment", "OPEX", "G&A"),
       GlDef(630000, "Marketing Spend", "OPEX", "Sales"),
       GlDef(640000, "Office Supplies", "OPEX", "G&A"),
       GlDef(650000, "Rent & Utilities", "OPEX", "Facilities"),
       GlDef(660000, "Professional Services", "OPEX", "G&A"),
       GlDef(670000, "Training & Education", "OPEX", "G&A"),
       GlDef(680000, "Insurance", "OPEX", "G&A"),
       GlDef(700000, "Capital Equipment", "CAPEX", "Capex"),
       GlDef(701000, "IT Hardware", "CAPEX", "Capex"),
       GlDef(702000, "Facility Improvements", "CAPEX", "Capex"),
       GlDef(710000, "Depreciation", "OPEX", "G&A"),
       GlDef(720000, "Freight & Shipping", "OPEX", "Ops"),
       GlDef(730000, "Maintenance", "OPEX", "Facilities") >>

(* Config.  The fields the model varies; the others are the defaults above.*)

StartDates == {Date(2024, 12, 1), Date(2024, 12, 15)}
EndDates == {Date(2024, 12, 31), Date(2025, 1, 20)}

\* counts up to the bound, and one more than the department list holds
CostCenterCounts == 0..MaxCC \cup {Len(departments) + 1}

\* no account, one account, and enough accounts to reach the sparse ones
GlCounts == {0, 1, MaxGL}

Configs ==
    [seed : 0..MaxSeed,
     start_date : StartDates,
     end_date : EndDates,
     num_cost_centers : CostCenterCounts,
     num_gl_accounts : GlCounts,
     max_postings_per_month : 1..MaxPostings,
     over_budget_cost_centers : 0..MaxTrend,
     under_budget_cost_centers : 0..MaxTrend]

\* the cost-center columns of lines 54-67; pd.DataFrame needs equal lengths
CostCenterColumns(c) ==
    [cost_center_id |-> [i \in 1..c.num_cost_centers |-> CcId(i)],
     department |-> Take(departments, c.num_cost_centers),
     manager |-> Take(managers, c.num_cost_centers),
     parent_cost_center_id |-> [i \in 1..c.num_cost_centers |-> "None"]]

CostCenterFrame(cols) ==
    [i \in 1..Len(cols.cost_center_id) |->
        [cost_center_id |-> cols.cost_center_id[i],
         cost_center_name |-> <<cols.department[i], "Cost Center">>,
         department |-> cols.department[i],
         manager |-> cols.manager[i],
         parent_cost_center_id |-> cols.parent_cost_center_id[i]]]

CalendarRow(d) ==
    [calendar_date |-> d,
     fiscal_year |-> d[1],
     fiscal_period |-> d[2],
     is_month_end |-> (d = PeriodEnd(PeriodOf(d)))]

\* the outcome of make_dimensions: the three tables, or the ValueError of
\* pd.DataFrame when the cost-center columns differ in length
make_dimensions(c) ==
    LET cols == CostCenterColumns(c)
        n == Len(cols.cost_center_id)
        dates == DateRange(c.start_date, c.end_date)
    IN  IF Len(cols.department) # n \/ Len(cols.manager) # n
           \/ Len(cols.parent_cost_center_id) # n
        THEN [ok |-> FALSE,
              error |-> Exc("ValueError", "All arrays must be of the same length", 62)]
        ELSE [ok |-> TRUE,
              cost_centers |-> CostCenterFrame(cols),
              gl_accounts |-> Take(gl_defs, c.num_gl_accounts),
              fiscal_calendar |-> [i \in 1..Len(dates) |-> CalendarRow(dates[i])]]

----------------------------------------------------------------------------
(* generate_budget                                                         *)

\* months of lines 108 and 163
Months(c) == PeriodRange(c.start_date, c.end_date)

Column(table, col) == [i \in 1..Len(table) |-> table[i][col]]

SparseCodes == {620000, 640000, 670000, 700000, 701000, 702000}

\* sparse_gls, line 111
SparseGls(gls) == SparseCodes \cap Range(Column(gls, "gl_account"))

\* cc_scale, line 122, in thousandths
CcScale(cc_i, ncc) == 800 + ((cc_i * 800) \div Max(1, ncc - 1))

\* gl_scale, line 135, in thousandths
GlScale(gl_i, ngl) == 600 + ((gl_i * 1200) \div Max(1, ngl - 1))

\* seasonal, lines 138-142, in hundredths
Seasonal(fp) ==
    IF fp \in {10, 11, 12} THEN 100 + seasonal_q4_uplift
    ELSE IF fp \in {6, 7, 8} THEN 100 + seasonal_summer_uplift
    ELSE 100

\* base * cc_scale * gl_scale * seasonal * noise, in 1/100 cent; noise in
\* hundredths
BudgetProduct(acct_type, cc_i, ncc, gl_i, ngl, fp, noise) ==
    LET base == IF acct_type = "OPEX" THEN base_opex ELSE base_capex
        scaled == RoundDiv(RoundDiv(base * CcScale(cc_i, ncc), 1000)
                             * GlScale(gl_i, ngl), 1000)
    IN  scaled * Seasonal(fp) * noise

\* a faulty variant: the amount without max(0.0, ...)
BudgetAmountUnfloored(acct_type, cc_i, ncc, gl_i, ngl, fp, noise) ==
    RoundDiv(BudgetProduct(acct_type, cc_i, ncc, gl_i, ngl, fp, noise), 100)

\* round(float(max(0.0, ...)), 2), lines 145-147, in cents
BudgetAmount(acct_type, cc_i, ncc, gl_i, ngl, fp, noise) ==
    RoundDiv(Max(0, BudgetProduct(acct_type, cc_i, ncc, gl_i, ngl, fp, noise)), 100)

GrainKey(row) ==
    <<row.fiscal_year, row.fiscal_period, row.gl_account, row.cost_center_id>>

\* a faulty variant: every iteration takes the first cost center
LoopIndexStuck(k, ncc, ngl) ==
    [p |-> (k \div (ncc * ngl)) + 1, cc_i |-> 0, gl_i |-> k % ngl]

\* the position of iteration k of the three nested loops of lines 117-124
LoopIndex(k, ncc, ngl) ==
    [p |-> (k \div (ncc * ngl)) + 1, cc_i |-> (k \div ngl) % ncc, gl_i |-> k % ngl]

\* iteration k of the loop body, lines 125-147: the rows it appends (none
\* when the cell is skipped) and the generator's state after it
BudgetIteration(c, ccs, gls, k, s) ==
    LET at == LoopIndex(k, Len(ccs), Len(gls))
        p == Months(c)[at.p]
        fp == p[2]
        gl == gls[at.gl_i + 1]
        sparse == gl.gl_account \in SparseGls(gls)
        skip == DrawRandom(s)
        noise == DrawNormal(100, 8, IF sparse THEN skip.rng ELSE s)
    IN  IF sparse /\ skip.val < sparse_gl_probability
        THEN [noise |-> <<>>, rows |-> <<>>, rng |-> skip.rng]
        ELSE [noise |-> noise.val,
              rows |-> << [fiscal_year |-> p[1],
                           fiscal_period |-> fp,
                           gl_account |-> gl.gl_account,
                           cost_center_id |-> ccs[at.cc_i + 1].cost_center_id,
                           budget_amount |->
                               BudgetAmount(gl.account_type, at.cc_i, Len(ccs),
                                            at.gl_i, Len(gls), fp, noise.val)] >>,
              rng |-> noise.rng]

\* budget.duplicated(subset=[...]).sum(), line 155
Dupes(table) ==
    Cardinality({i \in 1..Len(table) :
                    \E j \in 1..(i - 1) : GrainKey(table[j]) = GrainKey(table[i])})

----------------------------------------------------------------------------
(* generate_actuals                                                        *)

\* sorted(...) of a set of strings
RECURSIVE SortStrings(_)
SortStrings(S) ==
    IF S = {} THEN <<>>
    ELSE LET m == CHOOSE x \in S : \A y \in S \ {x} : StrLess(x, y)
         IN  <<m>> \o SortStrings(S \ {m})

\* the order of groupby's keys: year, period, GL code, cost-center id
KeyLess(a, b) ==
    IF a[1] # b[1] THEN a[1] < b[1]
    ELSE IF a[2] # b[2] THEN a[2] < b[2]
    ELSE IF a[3] # b[3] THEN a[3] < b[3]
    ELSE StrLess(a[4], b[4])

RECURSIVE SortKeys(_)
SortKeys(S) ==
    IF S = {} THEN <<>>
    ELSE LET m == CHOOSE x \in S : \A y \in S \ {x} : KeyLess(x, y)
         IN  <<m>> \o SortKeys(S \ {m})

RECURSIVE SumWhere(_, _)
SumWhere(table, key) ==
    IF table = <<>> THEN 0
    ELSE (IF GrainKey(Head(table)) = key THEN Head(table).budget_amount ELSE 0)
         + SumWhere(Tail(table), key)

\* a faulty variant: a row for every combination of a period, a GL account
\* and a cost center of the table, budgeted or not
GroupSumCross(table) ==
    LET rows == Range(table)
        keys == SortKeys({<<a.fiscal_year, a.fiscal_period, b.gl_account,
                            c.cost_center_id>> : a \in rows, b \in rows, c \in rows})
    IN  [i \in 1..Len(keys) |->
            [fiscal_year |-> keys[i][1], fiscal_period |-> keys[i][2],
             gl_account |-> keys[i][3], cost_center_id |-> keys[i][4],
             budget_amount |-> SumWhere(table, keys[i])]]

\* budget.groupby([...], as_index=False)["budget_amount"].sum(), line 183
GroupSum(table) ==
    LET keys == SortKeys({GrainKey(table[i]) : i \in 1..Len(table)})
    IN  [i \in 1..Len(keys) |->
            [fiscal_year |-> keys[i][1], fiscal_period |-> keys[i][2],
             gl_account |-> keys[i][3], cost_center_id |-> keys[i][4],
             budget_amount |-> SumWhere(table, keys[i])]]

\* a faulty variant: the over-budget cost centers are not taken out
RemainingAll(cc_ids, over) == cc_ids

\* remaining, line 168
Remaining(cc_ids, over) == SelectSeq(cc_ids, LAMBDA x : x \notin over)

\* lines 166-169: the two cohorts and the generator's state after the draws
TrendCohorts(c, table, s) ==
    LET cc_ids == SortStrings(Range(Column(table, "cost_center_id")))
        o == DrawChoiceNoReplace(cc_ids, Min(c.over_budget_cost_centers, Len(cc_ids)), s)
        remaining == Remaining(cc_ids, Range(o.val))
        u == DrawChoiceNoReplace(remaining,
                                 Min(c.under_budget_cost_centers, Len(remaining)), o.rng)
    IN  [over_budget_cc |-> Range(o.val), under_budget_cc |-> Range(u.val),
         rng |-> u.rng]

\* dates_by_period, lines 175-179
DatesByPeriod(c) ==
    LET ms == Months(c)
    IN  [p \in Range(ms) |-> DateRange(PeriodStart(p), PeriodEnd(p))]

\* gl_type.get(gl), line 171
GlType(gls, code) ==
    IF \E i \in 1..Len(gls) : gls[i].gl_account = code
    THEN (CHOOSE r \in Range(gls) : r.gl_account = code).account_type
    ELSE "None"

doc_types == <<"SA", "KR", "RE", "AB", "KA">>

\* a faulty variant: the count clipped from above only
PostingCountUnfloored(draw, maxp) == Min(draw, maxp)

\* int(np.clip(draw, 1, maxp)), line 205
PostingCount(draw, maxp) == Min(Max(draw, 1), maxp)

\* max(0.0, bud * mult), line 201, in cents; mult in hundredths
TargetActual(bud, mult) == RoundDiv(Max(0, bud * mult), 100)

\* lines 214-223: one row per (date, amount) pair, each with its own
\* document-type draw
RECURSIVE PostingRows(_, _, _, _)
PostingRows(row, post_dates, amounts, s) ==
    IF post_dates = <<>> \/ amounts = <<>> THEN [rows |-> <<>>, rng |-> s]
    ELSE LET doc == DrawChoice(doc_types, s)
             rest == PostingRows(row, Tail(post_dates), Tail(amounts), doc.rng)
         IN  [rows |-> << [posting_date |-> Head(post_dates),
                           fiscal_year |-> row.fiscal_year,
                           fiscal_period |-> row.fiscal_period,
                           gl_account |-> row.gl_account,
                           cost_center_id |-> row.cost_center_id,
                           actual_amount |-> RoundDiv(Head(amounts), 100),
                           document_type |-> doc.val] >> \o rest.rows,
              rng |-> rest.rng]

\* the loop body for one row of budget_g, lines 186-223
ActualsIteration(c, gls, over, under, row, s) ==
    LET m0 == DrawNormal(100, 12, s)
        m1 == m0.val + (IF row.cost_center_id \in over THEN 8 ELSE 0)
        m2 == m1 - (IF row.cost_center_id \in under THEN 7 ELSE 0)
        spike == DrawRandom(m0.rng)
        boost == DrawUniform(spike_min, spike_max, spike.rng)
        spiked == spike.val < spike_probability
        mult == IF spiked THEN m2 + boost.val ELSE m2
        s1 == IF spiked THEN boost.rng ELSE spike.rng
        target_actual == TargetActual(row.budget_amount, mult)
        lam == IF GlType(gls, row.gl_account) = "OPEX"
               THEN avg_postings_opex_per_month ELSE avg_postings_capex_per_month
        pois == DrawPoisson(lam, s1)
        n == PostingCount(pois.val, c.max_postings_per_month)
        dates_in_month == DatesByPeriod(c)[<<row.fiscal_year, row.fiscal_period>>]
        post_dates == DrawChoiceReplace(dates_in_month, n, pois.rng)
        weights == DrawDirichlet(n, post_dates.rng)
        amounts == [i \in 1..n |-> target_actual * weights.val[i]]
        posted == PostingRows(row, post_dates.val, amounts, weights.rng)
    IN  [rows |-> posted.rows, rng |-> posted.rng, n |-> n, draw |-> pois.val,
         mult |-> mult]

----------------------------------------------------------------------------
(* validate: the exception of the first check that fails, if any.  A       *)
(* failed assert carries no message: str(e) is empty.                      *)


\* min() and max() of a non-empty column of dates
DateMin(s) == CHOOSE x \in Range(s) : \A y \in Range(s) : DateLeq(x, y)
DateMax(s) == CHOOSE x \in Range(s) : \A y \in Range(s) : DateLeq(y, x)

validate(ccs, gls, cal, bud, act) ==
    LET cc_ids == Range(Column(ccs, "cost_center_id"))
        gl_codes == Range(Column(gls, "gl_account"))
    IN  IF ~ (Range(Column(bud, "cost_center_id")) \subseteq cc_ids)
        THEN Exc("AssertionError", "", 235)
        ELSE IF ~ (Range(Column(act, "cost_center_id")) \subseteq cc_ids)
        THEN Exc("AssertionError", "", 236)
        ELSE IF ~ (Range(Column(bud, "gl_account")) \subseteq gl_codes)
        THEN Exc("AssertionError", "", 237)
        ELSE IF ~ (Range(Column(act, "gl_account")) \subseteq gl_codes)
        THEN Exc("AssertionError", "", 238)
        ELSE IF act = <<>> \/ cal = <<>>
        THEN Exc("TypeError", "'>=' not supported between instances of 'float' and 'datetime.date'", 241)
        ELSE IF ~ DateLeq(DateMin(Column(cal, "calendar_date")), DateMin(Column(act, "posting_date")))
        THEN Exc("AssertionError", "", 241)
        ELSE IF ~ DateLeq(DateMax(Column(act, "posting_date")), DateMax(Column(cal, "calendar_date")))
        THEN Exc("AssertionError", "", 242)
        ELSE IF Dupes(bud) # 0
        THEN Exc("AssertionError", "", 245)
        ELSE IF \E i \in 1..Len(bud) : bud[i].budget_amount < 0
        THEN Exc("AssertionError", "", 248)
        ELSE NoException

----------------------------------------------------------------------------
(* The process: main() under the handler of lines 280-284.                 *)

FileOrder ==
    <<"cost_centers.csv", "gl_accounts.csv", "fiscal_calendar.csv",
      "finance_budget.csv", "finance_actuals.csv">>

NoLoop == [k |-> 0, budget_g |-> <<>>, noise |-> <<>>, mult |-> <<>>, draw |-> <<>>]
NoTrend == [over_budget_cc |-> {}, under_budget_cc |-> {}]

\* the state of a process at its start, on a given disk
Start(d) ==
    /\ pc = "makedirs"
    /\ rng = 0
    /\ cost_centers = <<>> /\ gl_accounts = <<>> /\ fiscal_calendar = <<>>
    /\ budget = <<>> /\ actuals = <<>>
    /\ loop = NoLoop /\ trend = NoTrend
    /\ disk = d /\ disk0 = d
    /\ written = <<>> /\ stderr = <<>> /\ exit_status = -1
    /\ exception = NoException
    /\ stages = <<>>

Init ==
    /\ cfg \in {c \in Configs : DateLeq(c.start_date, c.end_date)}
    /\ run = 1
    /\ first_run = <<>>
    /\ Start([dir |-> FALSE, files |-> {}])

\* a faulty variant: a handler that prints nothing and exits with status 0
RaiseSilently(e) ==
    /\ pc' = "failed"
    /\ exception' = e
    /\ stderr' = stderr
    /\ exit_status' = 0

\* an exception e leaves main and reaches the handler of lines 282-284:
\* print(f"Error: {e}", file=sys.stderr); sys.exit(1)
Raise(e) ==
    /\ pc' = "failed"
    /\ exception' = e
    /\ stderr' = Append(stderr, <<"Error:", e.msg>>)
    /\ exit_status' = 1

\* os.makedirs(cfg.out_dir, exist_ok=True), line 253
MainMakedirs ==
    /\ pc = "makedirs"
    /\ \/ /\ disk' = [disk EXCEPT !.dir = TRUE]
          /\ pc' = "make_dimensions"
          /\ stages' = Append(stages, "makedirs")
          /\ UNCHANGED <<stderr, exit_status, exception>>
       \/ /\ Raise(Exc("OSError", "makedirs", 253))
          /\ UNCHANGED <<disk, stages>>
    /\ UNCHANGED <<cfg, rng, cost_centers, gl_accounts, fiscal_calendar, budget,
                   actuals, loop, trend, written, run, first_run, disk0>>

\* lines 255-257
MainMakeDimensions ==
    /\ pc = "make_dimensions"
    /\ rng' = DefaultRng(cfg.seed)
    /\ LET r == make_dimensions(cfg)
       IN  IF r.ok
           THEN /\ cost_centers' = r.cost_centers
                /\ gl_accounts' = r.gl_accounts
                /\ fiscal_calendar' = r.fiscal_calendar
                /\ pc' = "generate_budget"
                /\ stages' = Append(stages, "make_dimensions")
                /\ UNCHANGED <<stderr, exit_status, exception>>
           ELSE /\ Raise(r.error)
                /\ UNCHANGED <<cost_centers, gl_accounts, fiscal_calendar, stages>>
    /\ UNCHANGED <<cfg, budget, actuals, loop, trend, disk, written, run,
                   first_run, disk0>>

\* generate_budget up to its loop, lines 108-116
BudgetBegin ==
    /\ pc = "generate_budget"
    /\ loop' = NoLoop
    /\ budget' = <<>>
    /\ pc' = "budget_loop"
    /\ UNCHANGED <<cfg, rng, cost_centers, gl_accounts, fiscal_calendar, actuals,
                   trend, disk, written, stderr, exit_status, exception, stages, run,
                   first_run, disk0>>

BudgetCells == Len(Months(cfg)) * Len(cost_centers) * Len(gl_accounts)

\* one iteration of the innermost loop, lines 124-147
BudgetCell ==
    /\ pc = "budget_loop"
    /\ loop.k < BudgetCells
    /\ LET it == BudgetIteration(cfg, cost_centers, gl_accounts, loop.k, rng)
       IN  /\ budget' = budget \o it.rows
           /\ rng' = it.rng
           /\ loop' = [loop EXCEPT !.k = loop.k + 1,
                                   !.noise = IF it.rows = <<>> THEN loop.noise
                                             ELSE <<it.noise>>]
    /\ UNCHANGED <<cfg, pc, cost_centers, gl_accounts, fiscal_calendar, actuals,
                   trend, disk, written, stderr, exit_status, exception, stages, run,
                   first_run, disk0>>

\* the duplicate check and the return, lines 149-159
BudgetEnd ==
    /\ pc = "budget_loop"
    /\ loop.k >= BudgetCells
    /\ IF Dupes(budget) # 0
       THEN /\ Raise(Exc("ValueError", "Budget grain not unique; duplicates found", 157))
            /\ UNCHANGED stages
       ELSE /\ pc' = "generate_actuals"
            /\ stages' = Append(stages, "generate_budget")
            /\ UNCHANGED <<stderr, exit_status, exception>>
    /\ UNCHANGED <<cfg, rng, cost_centers, gl_accounts, fiscal_calendar, budget,
                   actuals, loop, trend, disk, written, run, first_run, disk0>>

\* generate_actuals up to its loop, lines 163-183
ActualsBegin ==
    /\ pc = "generate_actuals"
    /\ LET t == TrendCohorts(cfg, budget, rng)
       IN  /\ trend' = [over_budget_cc |-> t.over_budget_cc,
                        under_budget_cc |-> t.under_budget_cc]
           /\ rng' = t.rng
    /\ loop' = [loop EXCEPT !.k = 0, !.budget_g = GroupSum(budget)]
    /\ actuals' = <<>>
    /\ pc' = "actuals_loop"
    /\ UNCHANGED <<cfg, cost_centers, gl_accounts, fiscal_calendar, budget, disk,
                   written, stderr, exit_status, exception, stages, run, first_run, disk0>>

\* one iteration of the loop over budget_g, lines 185-223
ActualsCell ==
    /\ pc = "actuals_loop"
    /\ loop.k < Len(loop.budget_g)
    /\ LET it == ActualsIteration(cfg, gl_accounts, trend.over_budget_cc,
                                  trend.under_budget_cc, loop.budget_g[loop.k + 1], rng)
       IN  /\ actuals' = actuals \o it.rows
           /\ rng' = it.rng
           /\ loop' = [loop EXCEPT !.k = loop.k + 1, !.mult = <<it.mult>>,
                                   !.draw = <<it.draw>>]
    /\ UNCHANGED <<cfg, pc, cost_centers, gl_accounts, fiscal_calendar, budget,
                   trend, disk, written, stderr, exit_status, exception, stages, run,
                   first_run, disk0>>

\* the return, lines 225-230
ActualsEnd ==
    /\ pc = "actuals_loop"
    /\ loop.k >= Len(loop.budget_g)
    /\ pc' = "validate"
    /\ stages' = Append(stages, "generate_actuals")
    /\ UNCHANGED <<cfg, rng, cost_centers, gl_accounts, fiscal_calendar, budget,
                   actuals, loop, trend, disk, written, stderr, exit_status, exception, run,
                   first_run, disk0>>

\* a faulty variant: main goes on to the write stage without validate
ValidateUnchecked ==
    /\ pc = "validate"
    /\ pc' = "to_csv"
    /\ stages' = Append(stages, "validate")
    /\ UNCHANGED <<cfg, rng, cost_centers, gl_accounts, fiscal_calendar, budget,
                   actuals, loop, trend, disk, written, stderr, exit_status, exception, run,
                   first_run, disk0>>

\* line 261: main goes on only when no check of validate fails
MainValidate ==
    /\ pc = "validate"
    /\ LET v == validate(cost_centers, gl_accounts, fiscal_calendar, budget, actuals)
       IN  IF v = NoException
           THEN /\ pc' = "to_csv"
                /\ stages' = Append(stages, "validate")
                /\ UNCHANGED <<stderr, exit_status, exception>>
           ELSE /\ Raise(v)
                /\ UNCHANGED stages
    /\ UNCHANGED <<cfg, rng, cost_centers, gl_accounts, fiscal_calendar, budget,
                   actuals, loop, trend, disk, written, run, first_run, disk0>>

\* the next to_csv call, lines 264-268: the file is written, or the call
\* raises OSError, leaving nothing or a truncated file behind
MainToCsv ==
    /\ pc = "to_csv"
    /\ Len(written) < Len(FileOrder)
    /\ LET f == FileOrder[Len(written) + 1]
       IN  \/ /\ disk' = [disk EXCEPT !.files = disk.files \cup {f}]
              /\ written' = Append(written, f)
              /\ UNCHANGED <<pc, stderr, exit_status, exception>>
           \/ /\ \E truncated \in BOOLEAN :
                    disk' = [disk EXCEPT !.files =
                                IF truncated THEN disk.files \cup {f} ELSE disk.files]
              /\ Raise(Exc("OSError", "to_csv", 263 + Len(written) + 1))
              /\ UNCHANGED written
    /\ UNCHANGED <<cfg, rng, cost_centers, gl_accounts, fiscal_calendar, budget,
                   actuals, loop, trend, stages, run, first_run, disk0>>

\* the summary, lines 270-276, and the normal exit; print can raise
MainSummary ==
    /\ pc = "to_csv"
    /\ Len(written) = Len(FileOrder)
    /\ \/ /\ pc' = "done"
          /\ exit_status' = 0
          /\ stages' = Append(stages, "summary")
          /\ UNCHANGED <<stderr, exception>>
       \/ /\ Raise(Exc("OSError", "print", 276))
          /\ UNCHANGED stages
    /\ UNCHANGED <<cfg, rng, cost_centers, gl_accounts, fiscal_calendar, budget,
                   actuals, loop, trend, disk, written, run, first_run, disk0>>

Tables ==
    [cost_centers |-> cost_centers, gl_accounts |-> gl_accounts,
     fiscal_calendar |-> fiscal_calendar, budget |-> budget, actuals |-> actuals]

\* the program is run again with the same Config, on the disk the first
\* run left
Rerun ==
    /\ run = 1
    /\ pc \in {"done", "failed"}
    /\ run' = 2
    /\ first_run' = <<[tables |-> Tables, stages |-> stages]>>
    /\ pc' = "makedirs"
    /\ rng' = 0
    /\ cost_centers' = <<>> /\ gl_accounts' = <<>> /\ fiscal_calendar' = <<>>
    /\ budget' = <<>> /\ actuals' = <<>>
    /\ loop' = NoLoop /\ trend' = NoTrend
    /\ disk0' = disk
    /\ written' = <<>> /\ stderr' = <<>> /\ exit_status' = -1
    /\ exception' = NoException
    /\ stages' = <<>>
    /\ UNCHANGED <<cfg, disk>>

Next ==
    \/ MainMakedirs
    \/ MainMakeDimensions
    \/ BudgetBegin
    \/ BudgetCell
    \/ BudgetEnd
    \/ ActualsBegin
    \/ ActualsCell
    \/ ActualsEnd
    \/ MainValidate
    \/ MainToCsv
    \/ MainSummary

\* one run of the program
Spec == Init /\ [][Next]_vars

\* Configs with the posting and cohort knobs at their largest
TwoRunConfigs ==
    {c \in Configs : /\ DateLeq(c.start_date, c.end_date)
                     /\ c.max_postings_per_month = MaxPostings
                     /\ c.over_budget_cost_centers = MaxTrend
                     /\ c.under_budget_cost_centers = MaxTrend}

InitTwoRuns ==
    /\ cfg \in TwoRunConfigs
    /\ run = 1
    /\ first_run = <<>>
    /\ Start([dir |-> FALSE, files |-> {}])

NextTwoRuns == Next \/ Rerun

\* two runs of the program, one after the other, with the same Config
SpecTwoRuns == InitTwoRuns /\ [][NextTwoRuns]_vars

----------------------------------------------------------------------------
(* Properties.                                                             *)

\* the run failed with an exception of a type, raised at a line of the source
Failed(type, line) ==
    pc = "failed" /\ exception.type = type /\ exception.line = line

Completed(stage) == stage \in Range(stages)

IsPrefix(a, b) == Len(a) <= Len(b) /\ a = SubSeq(b, 1, Len(a))

BudgetKeys == {GrainKey(budget[i]) : i \in 1..Len(budget)}

RowsOf(key) == {i \in 1..Len(actuals) : GrainKey(actuals[i]) = key}

\* the rows of budget_g the loop of generate_actuals has been through
CellsDone ==
    IF pc = "actuals_loop" THEN loop.k
    ELSE IF Completed("generate_actuals") THEN Len(loop.budget_g)
    ELSE 0

\* C1, as stated: a run either succeeds with all five files written, or
\* fails with no file written at all, the reason on standard error and
\* exit status 1; no failure comes after some of the files are written.
C1_AllOrNothing ==
    /\ pc = "done" => written = FileOrder /\ exit_status = 0
    /\ pc = "failed" => written = <<>> /\ Len(stderr) = 1 /\ exit_status = 1

\* C1, amended: a run that ends normally has written all five files; a run
\* that fails prints "Error: " and the exception's message (empty for a failed
\* assert) on standard error and exits with status 1; a failure of generation or validation comes before the first to_csv call
\* and leaves no file written; the files are written in the order of main,
\* and only tables that pass validate are written.  (A failure of to_csv or
\* of the summary leaves some or all of the files written.)
C1_FailureBeforeFirstWrite ==
    /\ pc = "done" => /\ written = FileOrder
                      /\ Range(FileOrder) \subseteq disk.files
                      /\ exit_status = 0 /\ stderr = <<>>
    /\ pc = "failed" => /\ stderr = << <<"Error:", exception.msg>> >>
                        /\ exception.type = "AssertionError" => exception.msg = ""
                        /\ exit_status = 1
    /\ pc = "failed" /\ ~ Completed("validate") =>
           written = <<>> /\ disk.files = disk0.files
    /\ pc \notin {"done", "failed"} => exit_status = -1 /\ stderr = <<>>
    /\ IsPrefix(written, FileOrder)
    /\ written # <<>> => Completed("validate")

\* a run that failed in validate, after generating postings, with no file
\* written
C1_Witness ==
    /\ run = 1
    /\ pc = "failed"
    /\ Completed("generate_actuals") /\ ~ Completed("validate")
    /\ actuals # <<>>
    /\ written = <<>> /\ disk.files = {}
    /\ exit_status = 1

\* C2: every row of the actuals table has start_date <= posting_date <=
\* end_date, so the date-range checks of validate never fail.
C2_PostingDatesInRange ==
    /\ \A i \in 1..Len(actuals) :
          /\ DateLeq(cfg.start_date, actuals[i].posting_date)
          /\ DateLeq(actuals[i].posting_date, cfg.end_date)
    /\ ~ Failed("AssertionError", 241)
    /\ ~ Failed("AssertionError", 242)

\* C3: the budget table holds at most one row per (fiscal_year,
\* fiscal_period, gl_account, cost_center_id), at every point of the loop
\* and at the return, so neither duplicate check ever fails.
C3_BudgetGrainUnique ==
    /\ Dupes(budget) = 0
    /\ ~ Failed("ValueError", 157)
    /\ ~ Failed("AssertionError", 245)

\* a returned budget over two months, two cost centers and six GL accounts,
\* with a sparse cell left out
C3_Witness ==
    /\ pc = "generate_actuals"
    /\ Len(Months(cfg)) = 2 /\ Len(cost_centers) = 2 /\ Len(gl_accounts) = 6
    /\ Len(budget) < BudgetCells
    /\ Len(budget) >= 20

\* C4: make_dimensions never fails, and returns min(num_cost_centers, 12)
\* cost centers, min(num_gl_accounts, 18) GL accounts and one calendar row
\* per day of start_date..end_date.
C4_MakeDimensionsTotal ==
    /\ ~ (pc = "failed" /\ stages = <<"makedirs">>)
    /\ Completed("make_dimensions") =>
          /\ Len(cost_centers) = Min(cfg.num_cost_centers, Len(departments))
          /\ Len(gl_accounts) = Min(cfg.num_gl_accounts, Len(gl_defs))
          /\ Len(fiscal_calendar) = Len(DateRange(cfg.start_date, cfg.end_date))

\* C5: every budget cell the loop has been through has between 1 and
\* max_postings_per_month rows in the actuals table, and the count of the
\* last cell is the clamped Poisson draw.
C5_PostingCountClamped ==
    /\ \A j \in 1..CellsDone :
          LET n == Cardinality(RowsOf(GrainKey(loop.budget_g[j])))
          IN  1 <= n /\ n <= cfg.max_postings_per_month
    /\ pc = "actuals_loop" /\ loop.k > 0 =>
          LET n == Cardinality(RowsOf(GrainKey(loop.budget_g[loop.k])))
              d == loop.draw[1]
          IN  n = (IF d < 1 THEN 1
                   ELSE IF d > cfg.max_postings_per_month
                        THEN cfg.max_postings_per_month ELSE d)

\* a cell whose Poisson draw was 0 and that has one row
C5_Witness ==
    /\ pc = "actuals_loop" /\ loop.k > 0
    /\ loop.draw = <<0>>
    /\ Cardinality(RowsOf(GrainKey(loop.budget_g[loop.k]))) = 1

\* a cell whose Poisson draw was above the maximum
C5_WitnessAbove ==
    /\ pc = "actuals_loop" /\ loop.k > 0
    /\ loop.draw[1] > cfg.max_postings_per_month
    /\ Cardinality(RowsOf(GrainKey(loop.budget_g[loop.k]))) = cfg.max_postings_per_month

\* the outcome of generation: the stages up to validate that completed
Generated(st) == SelectSeq(st, LAMBDA x : x \notin {"makedirs", "summary"})

C7_AmountsNonNegative ==
    /\ \A i \in 1..Len(budget) : budget[i].budget_amount >= 0
    /\ \A i \in 1..Len(actuals) : actuals[i].actual_amount >= 0
    /\ ~ Failed("AssertionError", 248)

\* a negative noise draw and a negative multiplier have both happened
C7_Witness ==
    /\ pc = "actuals_loop" /\ loop.k > 0
    /\ loop.noise # <<>> /\ loop.noise[1] < 0
    /\ loop.mult[1] < 0
    /\ \E i \in 1..Len(budget) : budget[i].budget_amount > 0

\* C8: budget and actuals rows carry ids of the dimension tables, and every
\* actuals row has the key of a budget row; the four foreign-key checks of
\* validate never fail.
C8_ForeignKeys ==
    LET cc_ids == Range(Column(cost_centers, "cost_center_id"))
        gl_codes == Range(Column(gl_accounts, "gl_account"))
    IN  /\ \A i \in 1..Len(budget) :
              budget[i].cost_center_id \in cc_ids /\ budget[i].gl_account \in gl_codes
        /\ \A i \in 1..Len(actuals) :
              /\ actuals[i].cost_center_id \in cc_ids
              /\ actuals[i].gl_account \in gl_codes
              /\ GrainKey(actuals[i]) \in BudgetKeys
        /\ ~ Failed("AssertionError", 235)
        /\ ~ Failed("AssertionError", 236)
        /\ ~ Failed("AssertionError", 237)
        /\ ~ Failed("AssertionError", 238)

\* postings generated from a budget that leaves out a sparse cell which
\* another month or cost center has
C8_Witness ==
    /\ pc = "validate"
    /\ actuals # <<>>
    /\ Len(budget) < BudgetCells
    /\ \E i \in 1..Len(budget) : budget[i].gl_account \in SparseCodes

StageOrder ==
    <<"makedirs", "make_dimensions", "generate_budget", "generate_actuals",
      "validate", "summary">>

\* C9, as stated: nothing on the filesystem changes, the output directory
\* included, before validation has completed.
C9_FilesystemOnlyAtWrite == disk # disk0 => Completed("validate")

\* C9, amended: the stages run in the order makedirs, make_dimensions,
\* generate_budget, generate_actuals, validate, each once; makedirs creates
\* the output directory first, and that is the only filesystem effect
\* before the write stage: no file is written before validation has
\* completed on tables that pass it, so a run that fails in generation or
\* validation leaves the files as they were, with the directory created.
C9_FilesOnlyAfterValidate ==
    /\ IsPrefix(stages, StageOrder)
    /\ ~ Completed("validate") => written = <<>> /\ disk.files = disk0.files
    /\ ~ Completed("makedirs") => disk = disk0
    /\ Completed("makedirs") => disk.dir
    /\ Completed("validate") =>
          validate(cost_centers, gl_accounts, fiscal_calendar, budget, actuals)
              = NoException

\* a first run that failed in validation: the directory is new and holds
\* no file
C9_Witness ==
    /\ pc = "failed"
    /\ Completed("generate_actuals") /\ ~ Completed("validate")
    /\ disk.dir /\ ~ disk0.dir
    /\ disk.files = {}

CohortsChosen == pc = "actuals_loop" \/ Completed("generate_actuals")

\* C10, as stated: the over-budget set has exactly
\* over_budget_cost_centers members, the under-budget set exactly
\* under_budget_cost_centers, and the two are disjoint.
C10_ExactCohorts ==
    CohortsChosen =>
        /\ Cardinality(trend.over_budget_cc) = cfg.over_budget_cost_centers
        /\ Cardinality(trend.under_budget_cc) = cfg.under_budget_cost_centers
        /\ trend.over_budget_cc \cap trend.under_budget_cc = {}

CohortsSized ==
    CohortsChosen =>
        LET ids == Range(Column(budget, "cost_center_id"))
            over == trend.over_budget_cc
            under == trend.under_budget_cc
        IN  /\ over \subseteq ids /\ under \subseteq ids
            /\ over \cap under = {}
            /\ Cardinality(over) = Min(cfg.over_budget_cost_centers, Cardinality(ids))
            /\ Cardinality(under) =
                  Min(cfg.under_budget_cost_centers, Cardinality(ids) - Cardinality(over))

\* C10, amended: the cohorts are chosen once, before the first budget cell
\* is processed, and stay fixed for all cells; they are disjoint sets of
\* cost-center ids of the budget table; with N such ids the over-budget set
\* has min(over_budget_cost_centers, N) members and the under-budget set
\* min(under_budget_cost_centers, N - size of the over-budget set).
C10_CohortsFixedAndDisjoint ==
    [][/\ CohortsSized'
       /\ pc = "actuals_loop" => trend' = trend
       /\ pc' # "actuals_loop" /\ ~ Completed("generate_actuals")'
             => trend' = NoTrend]_vars

\* both cohorts non-empty, with cells processed under them
C10_Witness ==
    /\ pc = "actuals_loop" /\ loop.k >= 2
    /\ Cardinality(trend.over_budget_cc) = 1
    /\ Cardinality(trend.under_budget_cc) = 1

====
